---- MODULE Spec2Model ----
(***************************************************************************)
(* State-machine model of the block committer's core services:             *)
(*   BlockWatcher   (packages/services/src/block_watcher.rs)               *)
(*   CommitListener (packages/services/src/commit_listener.rs)             *)
(* together with the collaborators they talk to: the fuel node, the        *)
(* submission storage, the handoff channel and its receiver (the block     *)
(* committer), the L1 event stream and the cancellation token.             *)
(***************************************************************************)
EXTENDS Integers, Sequences, FiniteSets, TLC

\* ---------------------------------------------------------------- bounds
\* Greatest height the fuel chain reaches.
MaxHeight == 4
\* Greatest commit interval a BlockWatcher is constructed with.
MaxInterval == 2
\* Greatest capacity the handoff channel is created with.
MaxCapacity == 2
\* Greatest height the L1 chain reaches.
MaxL1 == 1
\* Greatest number of items one event stream yields.
MaxEvents == 2
\* Greatest block height of the submissions a listener run starts with.
MaxStored == 1
\* Width in bits of the model's unsigned word, which stands for u32: the
\* heights and the commit interval range over 0 .. 2^WordBits - 1.
WordBits == 4

\* ------------------------------------------------------------- variables
VARIABLES
    commit_interval,    \* BlockWatcher.commit_interval (NonZeroU32)
    capacity,           \* capacity of the mpsc channel behind tx_fuel_block
    chain,              \* height of the fuel node's latest block
    l1,                 \* current L1 height
    storage,            \* the submissions table: hash -> BlockSubmission
    tx_fuel_block,      \* blocks buffered in the handoff channel
    rx_closed,          \* the channel's receiver was closed or dropped
    held,               \* the block the committer took and has not stored yet
    latest_fuel_block,  \* BlockWatcher's gauge
    wpc,                \* where BlockWatcher::run stands
    current_block,      \* run's local current_block
    block,              \* run's local block (the one to send)
    wres,               \* what the last BlockWatcher::run returned
    wlog,               \* observations of the current BlockWatcher::run
    sent,               \* heights of all blocks ever sent on the channel
    resent,             \* a block was sent that had been sent before
    cancel_token,       \* the CancellationToken was cancelled
    latest_committed_block, \* CommitListener's gauge
    lpc,                \* where CommitListener::run stands
    height,             \* run's local height (where the stream starts)
    pulled,             \* items the stream has yielded in this run
    event,              \* the event handle_block_committed is handling
    query,              \* the set_submission_completed call under way
    lres,               \* what the last CommitListener::run returned
    llog,               \* observations of the current CommitListener::run
    flips               \* hashes whose submission went from pending to completed

wvars == <<latest_fuel_block, wpc, current_block, block, wres, wlog>>
chvars == <<tx_fuel_block, rx_closed, held>>
envvars == <<commit_interval, capacity, chain, l1>>
hist == <<sent, resent>>
lvars == <<cancel_token, latest_committed_block, lpc, height, pulled, event,
           query, lres, llog, flips>>

\* ------------------------------------------------------------ data model
\* Option<T>: None is the empty set, Some(x) the singleton.
None == {}

Some(x) == {x}

Unwrap(o) == CHOOSE x \in o : TRUE

Heights == 0..MaxHeight

\* The hash of the fuel block at a height; distinct blocks, distinct hashes.
HashOf(h) == 100 + h

\* FuelBlock { hash, height }
FuelBlock(h) == [hash |-> HashOf(h), height |-> h]

\* BlockSubmission { block, completed, submittal_height }
BlockSubmission(b, at) == [block |-> b, completed |-> FALSE, submittal_height |-> at]

Submissions(st) == {st[k] : k \in DOMAIN st}

\* ------------------------------------------------------------ errors
\* The classes of ports::l1::Error.
L1Errors == {"Network", "Other"}

\* What `?` makes of a ports::l1::Error in the services crate: Network stays
\* Network, anything else becomes Other.
services_error_from_l1(e) == IF e = "Network" THEN "Network" ELSE "Other"

\* From<services::Error> for the committer's Error, variant by variant.
\* Faulty variant: every services error ends as Other.
Error_from_services_as_other(e) == "Other"

Error_from_services(e) ==
    CASE e = "Network" -> "Network"
      [] e = "Storage" -> "Storage"
      [] e = "Other"   -> "Other"

\* ------------------------------------------------------ storage (ports)
\* Storage::submission_w_latest_block: the submission with the greatest
\* block height, or None.
submission_w_latest_block(st) ==
    IF DOMAIN st = {} THEN None
    ELSE Some(CHOOSE s \in Submissions(st) :
                 \A t \in Submissions(st) : t.block.height <= s.block.height)

\* Storage::insert: fails when a submission of the same block hash exists.
insert(st, s) ==
    IF s.block.hash \in DOMAIN st THEN st
    ELSE [k \in DOMAIN st \cup {s.block.hash} |->
            IF k = s.block.hash THEN s ELSE st[k]]

\* ---------------------------------------------------- u32 arithmetic
U32Range == 2^WordBits

U32Max == U32Range - 1

\* a - b on u32 as an optimised build computes it: modulo the word.
u32_sub(a, b) == (a - b) % U32Range

\* a + b on u32, likewise.
u32_add(a, b) == (a + b) % U32Range

\* ------------------------------------------------------- BlockWatcher
\* Faulty variant: rounds up to the next multiple of the interval.
current_epoch_block_height_round_up(current_block_height, interval) ==
    u32_add(current_block_height,
            u32_sub(interval, current_block_height % interval) % interval)

\* Faulty variant: the height is not rounded down to the interval.
current_epoch_block_height_unaligned(current_block_height, interval) ==
    current_block_height

current_epoch_block_height(current_block_height, interval) ==
    u32_sub(current_block_height, current_block_height % interval)

\* Faulty variant: reads submittal_height where block.height is meant.
last_submitted_block_height_wrong_field(st) ==
    {s.submittal_height : s \in submission_w_latest_block(st)}

last_submitted_block_height(st) ==
    {s.block.height : s \in submission_w_latest_block(st)}

\* Faulty variant: > where >= is meant.
check_if_stale_strict(st, block_height) ==
    LET submitted_height == last_submitted_block_height(st)
    IN  IF submitted_height = None THEN FALSE
        ELSE Unwrap(submitted_height) > block_height

check_if_stale(st, block_height) ==
    LET submitted_height == last_submitted_block_height(st)
    IN  IF submitted_height = None THEN FALSE
        ELSE Unwrap(submitted_height) >= block_height

\* fetch_block, lines 99-103: the error for a height the node has no block
\* at, an Other whose message names the height.
\* Faulty variant: reported as a failure of the network, no height named.
fetch_block_missing_as_network(at_height) == [class |-> "Network", names |-> None]

fetch_block_missing(at_height) == [class |-> "Other", names |-> Some(at_height)]

\* fetch_latest_block, lines 68-70: the value the gauge is set to.
\* Faulty variant: the gauge shows the epoch a block of that height closes
\* with an interval of two, not the height.
latest_fuel_block_value_epoch(current) == current.height - (current.height % 2)

latest_fuel_block_value(current) == current.height

\* Sender::send completes at once when the receiver is gone (with an error)
\* or when the channel has a free slot; otherwise it waits.
\* Faulty variant: the send never waits for a free slot.
SendReady_unbounded(ch, closed, cap) == TRUE

SendReady(ch, closed, cap) == closed \/ Len(ch) < cap

\* What is observed of a BlockWatcher::run:
\*   start_heights  block heights of the submissions stored when it started
\*   checked        what last_submitted_block_height returned to it
\*   stale          what check_if_stale returned to it
\*   fetches        its calls of block_at_height
\*   sends          blocks it sent on the channel, sent_block the last one
\*   from           the call that returned the block it chose to send
\*   reader         how a call of the fuel node let the run down: latest_failed,
\*                  block_failed, block_missing, or no for not at all
\*   names          the height the error it returned names
\*   epoch          what current_epoch_block_height returned to it
NewLog == [start_heights |-> {}, checked |-> None, stale |-> None,
           fetches |-> 0, sends |-> 0, sent_block |-> None,
           from |-> "none", reader |-> "no", names |-> None,
           epoch |-> None]

\* run, line 114: fetch_latest_block. The scheduler starts a run when none
\* is under way.
FetchLatestBlock ==
    /\ wpc \in {"idle", "done"}
    /\ block' = None
    /\ \E ok \in BOOLEAN :
         /\ wlog' = [NewLog EXCEPT
                       !.start_heights = {s.block.height : s \in Submissions(storage)},
                       !.reader = IF ok THEN "no" ELSE "latest_failed"]
         /\ IF ok
            THEN /\ current_block' = Some(FuelBlock(chain))
                 /\ latest_fuel_block' = latest_fuel_block_value(FuelBlock(chain))
                 /\ wpc' = "check_if_stale"
                 /\ wres' = "none"
            ELSE /\ current_block' = None
                 /\ wpc' = "done"
                 /\ wres' = "Network"
                 /\ UNCHANGED latest_fuel_block
    /\ UNCHANGED <<envvars, storage, chvars, hist, lvars>>

\* run, lines 115-125 up to the await of fetch_block.
CheckIfStale ==
    /\ wpc = "check_if_stale"
    /\ LET cur == Unwrap(current_block)
           epoch == current_epoch_block_height(cur.height, commit_interval)
       IN \E ok \in BOOLEAN :
            IF ~ok
            THEN /\ wpc' = "done"
                 /\ wres' = "Storage"
                 /\ wlog' = [wlog EXCEPT !.epoch = Some(epoch)]
                 /\ UNCHANGED block
            ELSE /\ wlog' = [wlog EXCEPT
                               !.epoch = Some(epoch),
                               !.checked = Some(last_submitted_block_height(storage)),
                               !.stale = Some(check_if_stale(storage, epoch)),
                               !.from = IF ~check_if_stale(storage, epoch)
                                           /\ cur.height = epoch
                                        THEN "latest_block" ELSE "none"]
                 /\ IF check_if_stale(storage, epoch)
                    THEN /\ wpc' = "done"
                         /\ wres' = "Ok"
                         /\ UNCHANGED block
                    ELSE IF cur.height = epoch
                         THEN /\ block' = current_block
                              /\ wpc' = "send"
                              /\ UNCHANGED wres
                         ELSE /\ wpc' = "fetch_block"
                              /\ UNCHANGED <<block, wres>>
    /\ UNCHANGED <<envvars, storage, chvars, hist, lvars, latest_fuel_block, current_block>>

\* fetch_block: block_at_height fails (Network), finds nothing (Other) or
\* returns the block.
FetchBlock ==
    /\ wpc = "fetch_block"
    /\ LET epoch == current_epoch_block_height(Unwrap(current_block).height,
                                               commit_interval)
       IN \E r \in {"err", "none", "some"} :
            /\ wlog' = [wlog EXCEPT !.fetches = @ + 1,
                                    !.from = IF r = "some" THEN "block_at_height"
                                             ELSE "none",
                                    !.reader = CASE r = "err"  -> "block_failed"
                                                 [] r = "none" -> "block_missing"
                                                 [] r = "some" -> "no",
                                    !.names = IF r = "none"
                                              THEN fetch_block_missing(epoch).names
                                              ELSE None]
            /\ CASE r = "err"  -> /\ wpc' = "done"
                                  /\ wres' = "Network"
                                  /\ UNCHANGED block
                 [] r = "none" -> /\ wpc' = "done"
                                  /\ wres' = fetch_block_missing(epoch).class
                                  /\ UNCHANGED block
                 [] r = "some" -> /\ block' = Some(FuelBlock(epoch))
                                  /\ wpc' = "send"
                                  /\ UNCHANGED wres
    /\ UNCHANGED <<envvars, storage, chvars, hist, lvars, latest_fuel_block, current_block>>

\* run, lines 127-132: tx_fuel_block.send(block).await
Send ==
    /\ wpc = "send"
    /\ SendReady(tx_fuel_block, rx_closed, capacity)
    /\ wpc' = "done"
    /\ IF rx_closed
       THEN /\ wres' = "Other"
            /\ UNCHANGED <<tx_fuel_block, wlog, hist>>
       ELSE /\ wres' = "Ok"
            /\ tx_fuel_block' = Append(tx_fuel_block, Unwrap(block))
            /\ wlog' = [wlog EXCEPT !.sends = @ + 1, !.sent_block = block]
            /\ sent' = sent \cup {Unwrap(block).height}
            /\ resent' = (resent \/ Unwrap(block).height \in sent)
    /\ UNCHANGED <<envvars, storage, rx_closed, held, latest_fuel_block,
                   current_block, block, lvars>>

\* ---------------------------------------- the receiver (block committer)
\* Receiver::recv
Recv ==
    /\ ~rx_closed
    /\ held = None
    /\ tx_fuel_block # <<>>
    /\ held' = Some(Head(tx_fuel_block))
    /\ tx_fuel_block' = Tail(tx_fuel_block)
    /\ UNCHANGED <<envvars, storage, rx_closed, wvars, hist, lvars>>

\* Contract::submit followed by Storage::insert of the pending submission;
\* a failed submit stores nothing.
Submit ==
    /\ held # None
    /\ \E ok \in BOOLEAN :
         storage' = IF ok THEN insert(storage, BlockSubmission(Unwrap(held), l1))
                    ELSE storage
    /\ held' = None
    /\ UNCHANGED <<envvars, tx_fuel_block, rx_closed, wvars, hist, lvars>>

\* The receiver is dropped; what the channel buffered is lost.
CloseRx ==
    /\ ~rx_closed
    /\ held = None
    /\ rx_closed' = TRUE
    /\ tx_fuel_block' = <<>>
    /\ UNCHANGED <<envvars, storage, held, wvars, hist, lvars>>

\* ------------------------------------------------------ CommitListener
\* Heights of the submissions a listener run starts with.
StoredHeights == 0..MaxStored

\* A hash no submission is ever stored for.
UnknownHash == HashOf(MaxHeight + 1)

EventHashes == {HashOf(h) : h \in StoredHeights} \cup {UnknownHash}

\* FuelBlockCommittedOnL1 { fuel_block_hash, commit_height }; the listener
\* never reads commit_height.
FuelBlockCommittedOnL1(hash) == [fuel_block_hash |-> hash]

\* Storage::set_submission_completed: marks the submission of that hash
\* completed and returns it; an error (no reply) when there is none. What it
\* does for a submission that is completed already is left open: strict
\* stores answer with the not-found error, the others succeed again.
set_submission_completed(st, hash, strict) ==
    IF hash \notin DOMAIN st \/ (strict /\ st[hash].completed)
    THEN [storage |-> st, reply |-> None]
    ELSE [storage |-> [st EXCEPT ![hash].completed = TRUE],
          reply |-> Some([st[hash] EXCEPT !.completed = TRUE])]

\* Faulty variant: the greatest submittal_height of all submissions.
determine_starting_l1_height_max(st) ==
    IF DOMAIN st = {} THEN 0
    ELSE CHOOSE a \in {s.submittal_height : s \in Submissions(st)} :
            \A s \in Submissions(st) : s.submittal_height <= a

determine_starting_l1_height(st) ==
    LET latest == submission_w_latest_block(st)
    IN  IF latest = None THEN 0 ELSE Unwrap(latest).submittal_height

\* handle_block_committed, lines 53-56: the one storage call it makes.
\* Faulty variant: the call flips the flag instead of setting it.
handler_storage_call_toggle(st, committed_on_l1, strict) ==
    LET hash == committed_on_l1.fuel_block_hash
    IN  IF hash \notin DOMAIN st
        THEN [storage |-> st, reply |-> None]
        ELSE [storage |-> [st EXCEPT ![hash].completed = ~@],
              reply |-> Some([st[hash] EXCEPT !.completed = ~@])]

\* Faulty variant: the update has no WHERE clause and completes every row.
handler_storage_call_every_row(st, committed_on_l1, strict) ==
    LET hash == committed_on_l1.fuel_block_hash
        all == [k \in DOMAIN st |-> [st[k] EXCEPT !.completed = TRUE]]
    IN  IF hash \notin DOMAIN st
        THEN [storage |-> st, reply |-> None]
        ELSE [storage |-> all, reply |-> Some(all[hash])]

handler_storage_call(st, committed_on_l1, strict) ==
    set_submission_completed(st, committed_on_l1.fuel_block_hash, strict)

\* handle_block_committed, lines 58-60: the value the gauge is set to.
\* Faulty variant: the gauge takes the L1 height of the submission.
committed_gauge_value_submittal(submission) == submission.submittal_height

committed_gauge_value(submission) == submission.block.height

\* take_until(cancel_token.cancelled()), line 87: polled before the stream
\* each time; once the token is cancelled the stream yields nothing more.
\* Faulty variant: the token is never consulted.
take_until_stops_never(cancelled) == FALSE

take_until_stops(cancelled) == cancelled

\* for_each(log_if_error), line 88: whether listening goes on after an item
\* that was handled with the given success.
\* Faulty variant: try_for_each, which stops at the first failed item.
keeps_listening_if_ok(item_ok) == item_ok

keeps_listening(item_ok) == TRUE

\* and_then, line 86: the stream is asked for its next item only when no
\* handler future is pending.
\* Faulty variant: items are pulled while a handler is still pending.
and_then_pulls_buffered(pending) == TRUE

and_then_pulls(pending) == pending = None

\* The set_submission_completed call of the event being handled: where it
\* stands (none, issued, ok, err), the submission it returned, whether it
\* took a submission from pending to completed, and the place in the stream
\* of the event it is made for (seq).
NoQuery == [state |-> "none", reply |-> None, flipped |-> FALSE, seq |-> 0]

\* What is observed of a CommitListener::run:
\*   established           the stream was established
\*   failed                an item of the stream failed (an Err item or a
\*                         handler error)
\*   ended_by              why the run returned: stream_end, cancelled, error
\*   cancelled_at_end      the token was cancelled when the run returned
\*   started_after_cancel  an event's handling started with the token cancelled
\*   half_handled          the run returned with an event's handling under way
\*   due                   hashes of the events that came after a failed item,
\*                         met a pending submission and whose storage call
\*                         did not fail
\*   last_pending          the hash of the last item handled, when it met a
\*                         pending submission and its storage call did not fail
\*   replayed              an event met a submission completed already
\*   opened                the heights event_streamer was called with
\*   setup_error           the ports::l1::Error establish_stream failed with
\*   exec                  the place in the stream of the event whose storage
\*                         call was run last (0: none yet)
\*   gauged                the place in the stream of the event whose handling
\*                         wrote the gauge last (0: none yet)
NewListenerLog == [established |-> FALSE, failed |-> FALSE, ended_by |-> "none",
                   cancelled_at_end |-> FALSE, started_after_cancel |-> FALSE,
                   half_handled |-> FALSE, due |-> {}, last_pending |-> None,
                   replayed |-> FALSE, opened |-> <<>>,
                   setup_error |-> "none", exec |-> 0, gauged |-> 0]

\* What a set_submission_completed call can leave in the database when its
\* caller is dropped before the database answered: nothing, or its effect.
Abandoned(st, q, ev) ==
    IF q.state = "issued"
    THEN {st} \cup {handler_storage_call(st, Unwrap(ev), strict).storage :
                       strict \in BOOLEAN}
    ELSE {st}

Flipped(old, new) ==
    {k \in DOMAIN old : ~old[k].completed /\ k \in DOMAIN new /\ new[k].completed}

CountFlips(old, new) ==
    [k \in DOMAIN flips |-> IF k \in Flipped(old, new) THEN flips[k] + 1 ELSE flips[k]]

\* run, line 79: determine_starting_l1_height. The scheduler starts a run
\* when none is under way.
DetermineStartingL1Height ==
    /\ lpc \in {"idle", "done"}
    /\ pulled' = 0
    /\ event' = None
    /\ query' = NoQuery
    /\ \E ok \in BOOLEAN :
         IF ok
         THEN /\ height' = determine_starting_l1_height(storage)
              /\ lpc' = "establish_stream"
              /\ lres' = "none"
              /\ llog' = NewListenerLog
         ELSE /\ lpc' = "done"
              /\ lres' = "Storage"
              /\ llog' = [NewListenerLog EXCEPT !.ended_by = "error",
                                                !.cancelled_at_end = cancel_token]
              /\ UNCHANGED height
    /\ UNCHANGED <<envvars, storage, chvars, wvars, hist, cancel_token,
                   latest_committed_block, flips>>

\* run, lines 81-84: event_streamer(height).establish_stream().await?
EstablishStream ==
    /\ lpc = "establish_stream"
    /\ \E r \in {"ok"} \cup L1Errors :
         IF r = "ok"
         THEN /\ lpc' = "poll"
              /\ llog' = [llog EXCEPT !.established = TRUE,
                                      !.opened = Append(@, height)]
              /\ UNCHANGED lres
         ELSE /\ lpc' = "done"
              /\ lres' = services_error_from_l1(r)
              /\ llog' = [llog EXCEPT !.ended_by = "error",
                                      !.cancelled_at_end = cancel_token,
                                      !.opened = Append(@, height),
                                      !.setup_error = r]
    /\ UNCHANGED <<envvars, storage, chvars, wvars, hist, cancel_token,
                   latest_committed_block, height, pulled, event, query, flips>>

\* The run returns Ok(()), line 91.
Return(by) ==
    /\ lpc' = "done"
    /\ lres' = "Ok"
    /\ event' = None
    /\ query' = NoQuery
    /\ llog' = [llog EXCEPT !.ended_by = by,
                            !.cancelled_at_end = cancel_token,
                            !.half_handled = (event # None)]

\* One poll of the combined stream while no event is being handled: the
\* token first (take_until), then the next item of the event stream, which
\* has ended, yields an error, or yields an event that and_then hands to
\* handle_block_committed (up to its await of the storage call).
PollNext ==
    /\ lpc \in {"poll", "handling"}
    /\ and_then_pulls(event)
    /\ IF take_until_stops(cancel_token)
       THEN /\ Return("cancelled")
            /\ UNCHANGED pulled
       ELSE \E kind \in {"end", "err", "event"}, item \in EventHashes :
              CASE kind = "end" ->
                     /\ Return("stream_end")
                     /\ UNCHANGED pulled
                [] kind = "err" ->
                     /\ pulled < MaxEvents
                     /\ pulled' = pulled + 1
                     /\ IF keeps_listening(FALSE)
                        THEN /\ llog' = [llog EXCEPT !.failed = TRUE,
                                                     !.last_pending = None]
                             /\ UNCHANGED <<lpc, lres, event, query>>
                        ELSE /\ lpc' = "done"
                             /\ lres' = "Other"
                             /\ llog' = [llog EXCEPT !.failed = TRUE,
                                                     !.ended_by = "error"]
                             /\ UNCHANGED <<event, query>>
                [] kind = "event" ->
                     /\ pulled < MaxEvents
                     /\ pulled' = pulled + 1
                     /\ event' = Some(FuelBlockCommittedOnL1(item))
                     /\ query' = [state |-> "issued", reply |-> None,
                                  flipped |-> FALSE, seq |-> pulled + 1]
                     /\ lpc' = "handling"
                     /\ LET pending == item \in DOMAIN storage /\ ~storage[item].completed
                        IN llog' = [llog EXCEPT
                              !.replayed = @ \/ (item \in DOMAIN storage
                                                  /\ storage[item].completed),
                              !.started_after_cancel = @ \/ cancel_token,
                              !.last_pending = IF pending THEN Some(item) ELSE None,
                              !.due = IF pending /\ llog.failed
                                      THEN @ \cup {item} ELSE @]
                     /\ UNCHANGED lres
    /\ UNCHANGED <<envvars, storage, chvars, wvars, hist, cancel_token,
                   latest_committed_block, height, flips>>

\* The database runs the statement of the call under way and answers; the
\* call can also fail on its way (connection, pool, timeout).
ExecQuery ==
    /\ query.state = "issued"
    /\ \E fault \in BOOLEAN, strict \in BOOLEAN :
         LET r == handler_storage_call(storage, Unwrap(event), strict)
         IN IF fault
            THEN /\ query' = [query EXCEPT !.state = "err"]
                 /\ llog' = [llog EXCEPT
                               !.due = @ \ {Unwrap(event).fuel_block_hash},
                               !.last_pending = None,
                               !.exec = query.seq]
                 /\ UNCHANGED <<storage, flips>>
            ELSE /\ storage' = r.storage
                 /\ flips' = CountFlips(storage, r.storage)
                 /\ query' = [query EXCEPT
                                !.state = IF r.reply = None THEN "err" ELSE "ok",
                                !.reply = r.reply,
                                !.flipped = (Flipped(storage, r.storage) # {})]
                 /\ llog' = [llog EXCEPT !.exec = query.seq]
    /\ UNCHANGED <<envvars, chvars, wvars, hist, cancel_token,
                   latest_committed_block, lpc, height, pulled, event, lres>>

\* The task is polled again while handle_block_committed awaits the storage
\* call, woken by the answer or by the token: take_until polls the token
\* first and, when it is cancelled, ends the stream, which drops the handler
\* where it stands; otherwise the handler takes the answer, sets the gauge
\* (lines 58-60) and for_each logs the result (line 88).
Resume ==
    /\ lpc = "handling"
    /\ query.state # "issued" \/ cancel_token
    /\ IF take_until_stops(cancel_token)
       THEN /\ Return("cancelled")
            /\ \E st \in Abandoned(storage, query, event) :
                 /\ storage' = st
                 /\ flips' = CountFlips(storage, st)
            /\ UNCHANGED <<latest_committed_block>>
       ELSE /\ query.state # "issued"
            /\ latest_committed_block' =
                 IF query.state = "ok"
                 THEN committed_gauge_value(Unwrap(query.reply))
                 ELSE latest_committed_block
            /\ event' = None
            /\ query' = NoQuery
            /\ IF keeps_listening(query.state = "ok")
               THEN /\ lpc' = "poll"
                    /\ llog' = [llog EXCEPT
                                  !.failed = @ \/ query.state = "err",
                                  !.gauged = IF query.state = "ok"
                                             THEN query.seq ELSE @]
                    /\ UNCHANGED lres
               ELSE /\ lpc' = "done"
                    /\ lres' = "Storage"
                    /\ llog' = [llog EXCEPT
                                  !.failed = TRUE,
                                  !.ended_by = "error"]
            /\ UNCHANGED <<storage, flips>>
    /\ UNCHANGED <<envvars, chvars, wvars, hist, cancel_token, height, pulled>>

\* CancellationToken::cancel, called by whoever shuts the service down.
Cancel ==
    /\ ~cancel_token
    /\ cancel_token' = TRUE
    /\ UNCHANGED <<envvars, storage, chvars, wvars, hist,
                   latest_committed_block, lpc, height, pulled, event, query,
                   lres, llog, flips>>

\* -------------------------------------------------------- environment
\* The fuel chain produces blocks.
ProduceFuelBlocks ==
    /\ \E h \in Heights : h > chain /\ chain' = h
    /\ UNCHANGED <<commit_interval, capacity, l1, storage, chvars, wvars, hist, lvars>>

\* The L1 chain produces a block.
ProduceL1Block ==
    /\ l1 < MaxL1
    /\ l1' = l1 + 1
    /\ UNCHANGED <<commit_interval, capacity, chain, storage, chvars, wvars, hist, lvars>>

\* The process stops and starts again: the database stays, everything in
\* memory (channel, gauges, runs under way) starts afresh.
Restart ==
    /\ wpc' = "idle"
    /\ current_block' = None
    /\ block' = None
    /\ wres' = "none"
    /\ wlog' = NewLog
    /\ latest_fuel_block' = 0
    /\ tx_fuel_block' = <<>>
    /\ rx_closed' = FALSE
    /\ held' = None
    /\ cancel_token' = FALSE
    /\ latest_committed_block' = 0
    /\ lpc' = "idle"
    /\ height' = 0
    /\ pulled' = 0
    /\ event' = None
    /\ query' = NoQuery
    /\ lres' = "none"
    /\ llog' = NewListenerLog
    /\ \E st \in Abandoned(storage, query, event) :
         /\ storage' = st
         /\ flips' = CountFlips(storage, st)
    /\ UNCHANGED <<envvars, hist>>

\* ------------------------------------------------------- specification
vars == <<envvars, storage, chvars, wvars, hist, lvars>>

AllHashes == {HashOf(h) : h \in 0..(MaxHeight + 1)}

WatcherIdle ==
    /\ latest_fuel_block = 0
    /\ wpc = "idle"
    /\ current_block = None
    /\ block = None
    /\ wres = "none"
    /\ wlog = NewLog
    /\ sent = {}
    /\ resent = FALSE

ListenerIdle ==
    /\ cancel_token = FALSE
    /\ latest_committed_block = 0
    /\ lpc = "idle"
    /\ height = 0
    /\ pulled = 0
    /\ event = None
    /\ query = NoQuery
    /\ lres = "none"
    /\ llog = NewListenerLog
    /\ flips = [k \in AllHashes |-> 0]

WatcherInit ==
    /\ commit_interval \in 1..MaxInterval
    /\ capacity \in 1..MaxCapacity
    /\ chain = 0
    /\ l1 = 0
    /\ storage = <<>>
    /\ tx_fuel_block = <<>>
    /\ rx_closed = FALSE
    /\ held = None
    /\ WatcherIdle
    /\ ListenerIdle

WatcherNext ==
    \/ FetchLatestBlock
    \/ CheckIfStale
    \/ FetchBlock
    \/ Send
    \/ Recv
    \/ Submit
    \/ CloseRx
    \/ ProduceFuelBlocks
    \/ Restart

WatcherSpec == WatcherInit /\ [][WatcherNext]_vars

\* A fresh deployment with the widest commit interval and a channel of one.
WatcherFairInit ==
    /\ WatcherInit
    /\ commit_interval = MaxInterval
    /\ capacity = 1

WatcherFairNext ==
    \/ FetchLatestBlock
    \/ CheckIfStale
    \/ FetchBlock
    \/ Send
    \/ Recv
    \/ Submit
    \/ ProduceFuelBlocks
    \/ Restart

\* The scheduler ticks for ever and the receiver stays; of the calls a run
\* makes (latest_block, the storage read, block_at_height) none fails for
\* ever; the committer takes what the channel holds and records what it
\* takes; restarts do not keep a run, or the committer, from getting there.
WatcherFairSpec ==
    /\ WatcherFairInit
    /\ [][WatcherFairNext]_vars
    /\ SF_vars(FetchLatestBlock /\ wpc' = "check_if_stale")
    /\ SF_vars(CheckIfStale /\ wres' # "Storage")
    /\ SF_vars(FetchBlock /\ wpc' = "send")
    /\ SF_vars(Send)
    /\ SF_vars(Recv)
    /\ SF_vars(Submit)
    /\ SF_vars(Submit /\ storage' # storage)

\* The stores a listener run can find: submissions of some of the blocks,
\* pending or completed, each submitted at an L1 height that has been reached.
InitStores(top) ==
    UNION {[{HashOf(h) : h \in hs} ->
               {[block |-> FuelBlock(h), completed |-> c, submittal_height |-> a] :
                   h \in hs, c \in BOOLEAN, a \in 0..top}] :
           hs \in SUBSET StoredHeights}

\* Each submission is stored under its block's hash, and a higher block
\* was submitted no earlier than a lower one: the watcher sends candidates
\* in the order of their heights and the committer stores them in that order.
WellKeyed(st) ==
    /\ \A k \in DOMAIN st : st[k].block.hash = k
    /\ \A s, t \in Submissions(st) :
          s.block.height <= t.block.height => s.submittal_height <= t.submittal_height

ListenerInit ==
    /\ commit_interval = 1
    /\ capacity = 1
    /\ chain = MaxStored
    /\ l1 \in 0..MaxL1
    /\ storage \in {st \in InitStores(l1) : WellKeyed(st)}
    /\ tx_fuel_block = <<>>
    /\ rx_closed = FALSE
    /\ held \in {None} \cup
                {Some(FuelBlock(h)) : h \in {x \in StoredHeights :
                     \A s \in Submissions(storage) : s.block.height <= x}}
    /\ WatcherIdle
    /\ ListenerIdle

ListenerNext ==
    \/ DetermineStartingL1Height
    \/ EstablishStream
    \/ PollNext
    \/ ExecQuery
    \/ Resume
    \/ Cancel
    \/ Submit
    \/ ProduceL1Block
    \/ Restart

ListenerSpec == ListenerInit /\ [][ListenerNext]_vars

ListenerFairInit == ListenerInit /\ l1 = 0

\* The runtime polls the listener's task whenever it was woken (by the token
\* or by the storage call's answer), and a connection attempt to the L1 node
\* ends, well or badly. The runs start at L1 height 0; ProduceL1Block takes
\* it further.
ListenerFairSpec ==
    /\ ListenerFairInit
    /\ [][ListenerNext]_vars
    /\ WF_vars(EstablishStream)
    /\ WF_vars(PollNext /\ cancel_token)
    /\ WF_vars(Resume)

\* BlockWatcher runs at any height of the fuel chain and with any commit
\* interval a word holds, the storage empty at first.
EpochInit ==
    /\ commit_interval \in 1..U32Max
    /\ capacity = 1
    /\ chain \in 0..U32Max
    /\ l1 = 0
    /\ storage = <<>>
    /\ tx_fuel_block = <<>>
    /\ rx_closed = FALSE
    /\ held = None
    /\ WatcherIdle
    /\ ListenerIdle

EpochNext ==
    \/ FetchLatestBlock
    \/ CheckIfStale
    \/ FetchBlock
    \/ Send
    \/ Recv
    \/ Submit

EpochSpec == EpochInit /\ [][EpochNext]_vars

\* BlockWatcher and CommitListener run side by side with the committer over
\* a table of submissions, both chains standing still; the epoch boundary is
\* block 0, which the watcher sends when the table is empty.
FrameInit ==
    /\ commit_interval = MaxInterval
    /\ capacity = 1
    /\ chain = MaxStored
    /\ l1 = 0
    /\ storage \in {st \in InitStores(l1) : WellKeyed(st)}
    /\ tx_fuel_block = <<>>
    /\ rx_closed = FALSE
    /\ held = None
    /\ WatcherIdle
    /\ ListenerIdle

FrameNext ==
    \/ FetchLatestBlock
    \/ CheckIfStale
    \/ FetchBlock
    \/ Send
    \/ Recv
    \/ Submit
    \/ DetermineStartingL1Height
    \/ EstablishStream
    \/ PollNext
    \/ ExecQuery
    \/ Resume
    \/ Cancel

FrameSpec == FrameInit /\ [][FrameNext]_vars

\* Each submission is stored under its block's hash; nothing else is asked
\* of the table, which takes whatever insert is given.
HashKeyed(st) == \A k \in DOMAIN st : st[k].block.hash = k

\* Listener runs over any table of submissions, the L1 chain at MaxL1 and
\* the committer at rest.
StartHeightInit ==
    /\ commit_interval = 1
    /\ capacity = 1
    /\ chain = MaxStored
    /\ l1 = MaxL1
    /\ storage \in {st \in InitStores(l1) : HashKeyed(st)}
    /\ tx_fuel_block = <<>>
    /\ rx_closed = FALSE
    /\ held = None
    /\ WatcherIdle
    /\ ListenerIdle

StartHeightNext ==
    \/ DetermineStartingL1Height
    \/ EstablishStream
    \/ PollNext
    \/ ExecQuery
    \/ Resume
    \/ Cancel
    \/ Restart

StartHeightSpec == StartHeightInit /\ [][StartHeightNext]_vars

\* =================================================================
\* Properties of BlockWatcher (checked under WatcherSpec)
\* =================================================================

\* The epoch boundary of the block the current run fetched, computed as the
\* specification words it: latest.height - (latest.height mod commit_interval).
EpochBoundary ==
    Unwrap(current_block).height - (Unwrap(current_block).height % commit_interval)

\* The current run read the storage and found a latest submission.
FoundLatest == wlog.checked # None /\ Unwrap(wlog.checked) # None

LatestFound == Unwrap(Unwrap(wlog.checked))

\* The current run was not stale and every read it made succeeded, so it
\* reached the send with a block in hand.
ReachedSend == wlog.stale = Some(FALSE) /\ block # None

\* C1 - Monotonic staleness: for every height X, if the storage held a
\* submission with block.height >= X when the run started, the run sends no
\* block whose height is <= X.
C1_MonotonicStaleness ==
    \A X \in Heights :
        (\E h \in wlog.start_heights : h >= X)
            => \A b \in wlog.sent_block : b.height > X

\* A run that started over a non-empty storage has sent a block.
C1_Witness ==
    /\ wpc = "done"
    /\ wlog.start_heights # {}
    /\ wlog.sent_block # None

\* C2 - A run that finds the latest submission at or above the epoch boundary
\* sends nothing, never calls block_at_height and returns Ok.
C2_StaleRunIsNoOp ==
    (wpc = "done" /\ FoundLatest /\ LatestFound >= EpochBoundary)
        => /\ wlog.sends = 0
           /\ wlog.fetches = 0
           /\ wres = "Ok"

\* A finished run whose latest block lies above the boundary and whose
\* latest submission sits exactly on the boundary.
C2_Witness ==
    /\ wpc = "done"
    /\ FoundLatest
    /\ LatestFound = EpochBoundary
    /\ Unwrap(current_block).height > EpochBoundary
    /\ wres = "Ok"

\* What a run that sent its block sent: one block, at the epoch boundary,
\* the block latest_block returned when it lies on the boundary (and then
\* block_at_height was not called), else the block block_at_height returned.
SentTheBoundaryBlock ==
    /\ wlog.sends = 1
    /\ Unwrap(wlog.sent_block).height = EpochBoundary
    /\ IF Unwrap(current_block).height = EpochBoundary
       THEN /\ wlog.from = "latest_block"
            /\ wlog.fetches = 0
            /\ wlog.sent_block = current_block
       ELSE /\ wlog.from = "block_at_height"
            /\ wlog.fetches = 1

\* C3 as stated - every run that is not stale and whose reads succeeded has
\* sent exactly one block, the boundary block.
C3_Original ==
    (wpc = "done" /\ ReachedSend) => SentTheBoundaryBlock

\* C3 as amended - a run that is not stale, whose reads succeeded and whose
\* send was accepted has sent exactly one block, the boundary block; when the
\* receiver is gone the run sends nothing and returns an Other error.
C3_SendsBoundaryBlock ==
    (wpc = "done" /\ ReachedSend)
        => IF wres = "Ok"
           THEN SentTheBoundaryBlock
           ELSE wres = "Other" /\ wlog.sends = 0

\* A run has sent the block block_at_height returned for a boundary below
\* the latest height.
C3_Witness ==
    /\ wpc = "done"
    /\ ReachedSend
    /\ wres = "Ok"
    /\ Unwrap(current_block).height > EpochBoundary
    /\ Unwrap(wlog.sent_block).height = EpochBoundary

\* C4 - No block is sent on the handoff channel more than once.
C4_NoDuplicateCandidate == ~resent

\* The distinct candidates in flight: sent on the channel and not yet stored
\* (or given up) by the committer.
InFlight ==
    {tx_fuel_block[i] : i \in 1..Len(tx_fuel_block)} \cup held

\* C10 as stated - at most one candidate is in flight at any moment.
C10_Original == Cardinality(InFlight) <= 1

\* C10 as amended - the channel never buffers more candidates than its
\* capacity, and a run that reaches the send while the channel is full (and
\* the receiver alive) cannot complete the send.
C10_ChannelBounded ==
    /\ Len(tx_fuel_block) <= capacity
    /\ (wpc = "send" /\ ~rx_closed /\ Len(tx_fuel_block) = capacity)
           => ~ENABLED Send

\* A run waits in send in front of a full channel.
C10_Witness ==
    /\ wpc = "send"
    /\ ~rx_closed
    /\ Len(tx_fuel_block) = capacity
    /\ capacity > 1

\* =================================================================
\* Properties of CommitListener (checked under ListenerSpec)
\* =================================================================

Completed(h) == h \in DOMAIN storage /\ storage[h].completed

\* C5 - Per-event isolation: a run whose stream was established ends only
\* because the stream ended or the token was cancelled, never because an item
\* failed; when it ends with the stream it returns Ok, and every event that
\* came after a failed item, met a pending submission and whose own storage
\* call did not fail (llog.due) has its submission completed.
C5_PerEventIsolation ==
    (lpc = "done" /\ llog.established /\ llog.ended_by # "cancelled")
        => /\ llog.ended_by = "stream_end"
           /\ lres = "Ok"
           /\ \A h \in llog.due : Completed(h)

\* A run ended with its stream after an item failed and a later event
\* completed a pending submission.
C5_Witness ==
    /\ lpc = "done"
    /\ llog.ended_by = "stream_end"
    /\ llog.failed
    /\ llog.due # {}

\* C6 - After run() returns, the pending submission the last handled
\* confirmation was for (llog.last_pending, its storage call not having
\* failed) is completed and the gauge shows its block height.
C6_CompletedAndGauged ==
    (lpc = "done" /\ llog.last_pending # None)
        => LET h == Unwrap(llog.last_pending)
           IN  /\ Completed(h)
               /\ latest_committed_block = storage[h].block.height

\* C7 - Completion is monotone: no step takes a completed submission back to
\* pending (or away), and no submission goes from pending to completed more
\* than once.
C7_CompletionMonotone ==
    /\ [][\A k \in DOMAIN storage :
             storage[k].completed => (k \in DOMAIN storage' /\ storage'[k].completed)]_vars
    /\ [](\A k \in DOMAIN flips : flips[k] <= 1)

\* A run has handled a confirmation of a submission that was completed
\* already, and ended.
C7_Witness ==
    /\ lpc = "done"
    /\ llog.ended_by = "stream_end"
    /\ llog.replayed
    /\ \E k \in DOMAIN storage : storage[k].completed /\ flips[k] = 1

\* C8 as stated - a run that returns with the token cancelled returns Ok.
C8_Original ==
    (lpc = "done" /\ llog.cancelled_at_end) => lres = "Ok"

\* C8 as amended - once the token is cancelled a run under way eventually
\* returns; it returns Ok when its stream had been established (a failure to
\* establish it still returns its error); and no event's handling starts
\* while the token is cancelled.
C8_Cancellation ==
    /\ [](lpc = "done" /\ llog.cancelled_at_end /\ llog.established => lres = "Ok")
    /\ [](~llog.started_after_cancel)
    /\ (cancel_token /\ lpc \in {"establish_stream", "poll", "handling"})
           ~> (lpc \in {"done", "idle"})

\* A run returned because of the token while the stream could yield more.
C8_Witness ==
    /\ lpc = "done"
    /\ llog.ended_by = "cancelled"
    /\ llog.established
    /\ pulled < MaxEvents
    /\ lres = "Ok"

\* C9 - run() never returns with an event half-handled.
C9_InFlightCompletes == lpc = "done" => ~llog.half_handled

\* =================================================================
\* Further properties of BlockWatcher (checked under WatcherSpec)
\* =================================================================

\* C11 - Whenever a run has fetched the latest block, the latest_fuel_block
\* gauge shows that block's height, from the fetch on and after the run
\* returned, however it ended: stale, sent, storage failure, missing
\* boundary block, failed fetch of the boundary block or failed send.
C11_GaugeShowsLatest ==
    current_block # None => latest_fuel_block = Unwrap(current_block).height

\* A stale run has returned Ok after it fetched a latest block above the
\* boundary, at an odd height.
C11_Witness ==
    /\ wpc = "done"
    /\ wres = "Ok"
    /\ wlog.stale = Some(TRUE)
    /\ wlog.sends = 0
    /\ current_block # None
    /\ Unwrap(current_block).height % 2 = 1

\* C14 - A run that is not stale, whose latest block lies above the epoch
\* boundary and for which block_at_height finds no block at the boundary
\* returns an Other error that names the boundary height and has sent
\* nothing; a run in which latest_block or block_at_height failed returns a
\* Network error and has sent nothing; and no step of a run changes the
\* submissions.
C14_MissingBoundaryBlock ==
    /\ [](wpc = "done" /\ wlog.reader = "block_missing"
            => /\ wlog.stale = Some(FALSE)
               /\ Unwrap(current_block).height # EpochBoundary
               /\ wres = "Other"
               /\ wlog.names = Some(EpochBoundary)
               /\ wlog.sends = 0)
    /\ [](wpc = "done" /\ wlog.reader \in {"latest_failed", "block_failed"}
            => /\ wres = "Network"
               /\ wlog.names = None
               /\ wlog.sends = 0)
    /\ [][(wvars' # wvars /\ wpc' # "idle") => storage' = storage]_vars

\* A run over a non-empty storage returned because the node had no block at
\* a boundary above 0.
C14_Witness ==
    /\ wpc = "done"
    /\ wlog.reader = "block_missing"
    /\ wres = "Other"
    /\ EpochBoundary > 0
    /\ storage # <<>>

\* C15 (checked under EpochSpec) - for every commit interval I >= 1 and
\* every height H a word holds, what current_epoch_block_height returned to
\* the run is H - (H mod I) with no underflow of the subtraction; it lies in
\* 0..H and in the word, is a multiple of I, and no multiple of I in 0..H is
\* greater.
C15_EpochArithmetic ==
    wlog.epoch # None =>
        LET H == Unwrap(current_block).height
            I == commit_interval
            r == Unwrap(wlog.epoch)
        IN  /\ H \in 0..U32Max
            /\ I \in 1..U32Max
            /\ H % I <= H
            /\ r = H - (H % I)
            /\ 0 <= r
            /\ r <= H
            /\ r <= U32Max
            /\ r % I = 0
            /\ \A m \in 0..H : m % I = 0 => m <= r

\* A run at the greatest height of the word has sent the block of a
\* boundary that lies between 0 and that height.
C15_Witness ==
    /\ wpc = "done"
    /\ wlog.epoch # None
    /\ Unwrap(current_block).height = U32Max
    /\ Unwrap(wlog.epoch) > 0
    /\ Unwrap(wlog.epoch) < U32Max
    /\ wlog.sent_block = Some(FuelBlock(Unwrap(wlog.epoch)))

\* C19 (checked under WatcherFairSpec) - every epoch boundary the fuel chain
\* has reached is eventually sent on the channel or has a submission.
C19_NoSkippedCheckpoint ==
    \A b \in Heights :
        (b <= chain /\ b % commit_interval = 0)
            ~> (b \in sent \/ \E s \in Submissions(storage) : s.block.height = b)

\* =================================================================
\* Further properties of CommitListener
\* =================================================================

\* The submissions with the greatest block height of a table.
LatestByBlock(st) ==
    {s \in Submissions(st) : \A t \in Submissions(st) : t.block.height <= s.block.height}

\* C12 (checked under StartHeightSpec) - a run calls event_streamer at most
\* once, exactly once when its stream was established, with the height it
\* determined at its start: 0 over an empty table, else the submittal_height
\* of the submission with the greatest block height in the table as it was
\* then, also when another submission has a greater submittal_height.
C12_StartsAtLatestSubmittal ==
    /\ [][(lpc # "establish_stream" /\ lpc' = "establish_stream")
            => IF DOMAIN storage = {} THEN height' = 0
               ELSE \E s \in LatestByBlock(storage) : height' = s.submittal_height]_vars
    /\ [](Len(llog.opened) <= 1)
    /\ [](\A i \in 1..Len(llog.opened) : llog.opened[i] = height)
    /\ [](llog.established => Len(llog.opened) = 1)

\* A stream was opened at the submittal_height of the highest block while a
\* lower block has a greater submittal_height.
C12_Witness ==
    /\ lpc = "poll"
    /\ llog.opened = <<height>>
    /\ \E t \in LatestByBlock(storage) : t.submittal_height = height
    /\ \E s \in Submissions(storage) : s.submittal_height > height

\* C13 (checked under ListenerSpec) - when establish_stream fails, run
\* returns an error of the class of that failure, which the committer's Error
\* keeps (Network stays Network), having pulled and handled no event; when
\* the storage read of the starting height fails, run returns a Storage
\* error and no stream was opened; and no step of a run that ends before
\* its stream is established changes a submission or the gauge.
C13_SetupFailurePropagates ==
    /\ [](lpc = "done" /\ llog.setup_error # "none"
            => /\ lres = llog.setup_error
               /\ Error_from_services(lres) = llog.setup_error
               /\ ~llog.established
               /\ pulled = 0
               /\ event = None)
    /\ [](lpc = "done" /\ lres = "Storage"
            => /\ llog.opened = <<>>
               /\ Error_from_services(lres) = "Storage"
               /\ pulled = 0
               /\ event = None)
    /\ [][(lvars' # lvars /\ lpc' \in {"establish_stream", "done"}
                          /\ ~llog'.established)
            => /\ storage' = storage
               /\ latest_committed_block' = latest_committed_block]_vars

\* A run failed with a Network error from establish_stream while a
\* submission is pending and the gauge shows an earlier completion.
C13_Witness ==
    /\ lpc = "done"
    /\ llog.setup_error = "Network"
    /\ lres = "Network"
    /\ latest_committed_block > 0
    /\ \E s \in Submissions(storage) : ~s.completed

\* C16 (checked under ListenerSpec) - an event for a submission that is
\* completed already leaves the submissions as they are, and the gauge is
\* written only by the handling of an event whose storage call took a
\* submission from pending to completed: when the call of the event being
\* handled did not, the gauge is after the handling what it was before.
C16_ReplayIsNoOp ==
    /\ [][(query.state = "issued" /\ query'.state \in {"ok", "err"}
             /\ Completed(Unwrap(event).fuel_block_hash))
            => storage' = storage]_vars
    /\ [][(lpc = "handling" /\ lpc' = "poll" /\ ~query.flipped)
            => latest_committed_block' = latest_committed_block]_vars

\* C17 (checked under ListenerSpec) - within a run the events are handled
\* one at a time in the order of the stream: an item is pulled only when no
\* event is being handled and no storage call is under way; the event being
\* handled is the item pulled last; every change of a submission is made by
\* the one call under way, for that event's hash, and that call belongs to
\* an event later in the stream than every call run before it; and the
\* gauge is written for events in the order of the stream.
C17_OneAtATimeInOrder ==
    /\ [][pulled' = pulled + 1 => (event = None /\ query = NoQuery)]_vars
    /\ [](event # None => query.state # "none" /\ query.seq = pulled)
    /\ [](event = None => query = NoQuery)
    /\ [](llog.gauged <= llog.exec /\ llog.exec <= pulled)
    /\ [][Flipped(storage, storage') # {}
            => /\ event # None
               /\ Flipped(storage, storage') = {Unwrap(event).fuel_block_hash}
               /\ query.state = "issued"
               /\ llog.exec < query.seq]_vars
    /\ [][(llog'.exec # llog.exec /\ llog'.exec # 0)
            => (llog'.exec = query.seq /\ llog.exec < query.seq)]_vars
    /\ [][(llog'.gauged # llog.gauged /\ llog'.gauged # 0)
            => (llog'.gauged = query.seq /\ llog.gauged < query.seq)]_vars

\* A run has handled two events, each completing a submission, the gauge
\* written for the second after the first.
C17_Witness ==
    /\ lpc = "poll"
    /\ pulled = 2
    /\ llog.exec = 2
    /\ llog.gauged = 2
    /\ ~llog.failed
    /\ ~llog.replayed
    /\ Cardinality({k \in DOMAIN storage : storage[k].completed /\ flips[k] = 1}) >= 2

\* A step of the committer: it gives up the block it held, stored or not.
CommitterStep == held # None /\ held' = None /\ UNCHANGED <<wvars, lvars>>

\* C18 (checked under FrameSpec) - no step of BlockWatcher changes the
\* submissions; no step of CommitListener inserts or deletes one or changes
\* its block or submittal_height; the only change either makes is completed
\* going to true on the submission whose hash is that of the event being
\* handled, so the stored hashes stay the same.
C18_StoreFrame ==
    /\ [][(wvars' # wvars /\ wpc' # "idle") => storage' = storage]_vars
    /\ [][~CommitterStep
            => /\ DOMAIN storage' = DOMAIN storage
               /\ \A k \in DOMAIN storage :
                     /\ storage'[k].block = storage[k].block
                     /\ storage'[k].submittal_height = storage[k].submittal_height
                     /\ storage'[k].completed # storage[k].completed
                           => /\ storage'[k].completed
                              /\ event # None
                              /\ k = Unwrap(event).fuel_block_hash]_vars

\* The watcher has sent a block, the committer has stored its submission
\* and the listener has completed it, all the while a run of the watcher
\* is under way.
C18_Witness ==
    /\ wpc = "send"
    /\ sent # {}
    /\ \E k \in DOMAIN storage :
          /\ storage[k].block.height \in sent
          /\ flips[k] = 1
          /\ storage[k].completed

\* C20 (checked under ListenerSpec) - whenever a run starts, the height it
\* determines for its stream is not greater than the submittal_height of any
\* stored submission that is not completed.
C20_NoPendingScannedPast ==
    [][(lpc # "establish_stream" /\ lpc' = "establish_stream")
        => \A s \in Submissions(storage) :
              ~s.completed => height' <= s.submittal_height]_vars

\* The gauge shows the block height of a stored, completed submission.
GaugeIsCompletedHeight ==
    \E s \in Submissions(storage) :
        s.completed /\ s.block.height = latest_committed_block

\* C21 (checked under ListenerSpec) - once the gauge has been written (it
\* is not 0, or the current run wrote it) it shows the block height of some
\* stored submission that is completed; it is written only by the handling
\* of an event whose set_submission_completed call returned a submission,
\* and then with the height of a submission stored as completed; the
\* handling of an event whose call failed leaves it as it was.
C21_GaugeAgreesWithStore ==
    /\ []((latest_committed_block # 0 \/ llog.gauged # 0) => GaugeIsCompletedHeight)
    /\ [][(lpc = "handling" /\ lpc' = "poll" /\ query.state = "ok")
            => /\ llog'.gauged = query.seq
               /\ \E s \in Submissions(storage') :
                     s.completed /\ s.block.height = latest_committed_block']_vars
    /\ [][(latest_committed_block' # latest_committed_block /\ lpc' # "idle")
            => (lpc = "handling" /\ lpc' = "poll" /\ query.state = "ok")]_vars
    /\ [][(lpc = "handling" /\ lpc' = "poll" /\ query.state = "err")
            => latest_committed_block' = latest_committed_block]_vars

\* A run wrote the gauge for its first event, the call of its second event
\* failed, and the gauge still shows the block height of the first.
C21_Witness ==
    /\ lpc = "poll"
    /\ pulled = 2
    /\ llog.gauged = 1
    /\ llog.exec = 2
    /\ llog.failed
    /\ latest_committed_block > 0
    /\ GaugeIsCompletedHeight

====
